---- MODULE Spec2Model ----
(***************************************************************************)
(* Model of the EchoPilot interview websocket session                      *)
(* (backend/websockets/audio_handler.py) together with the parts of the    *)
(* transcription service, the answer generator and the database module     *)
(* that the session drives.                                                *)
(*                                                                         *)
(* One connection is one asyncio task: handle_audio_websocket awaits every *)
(* handler it dispatches, so the task is described by a program counter    *)
(* (pc), the chain of callers (stack) and the locals that live across an   *)
(* await.  One action is the code that runs from one suspension point to   *)
(* the next.  The peer may drop the connection at any moment.              *)
(***************************************************************************)
EXTENDS Integers, Sequences, FiniteSets, TLC

(***************************************************************************)
(* Bounds of the model                                                     *)
(***************************************************************************)
MaxMsgs == 3
MaxTranscript == 30
MaxWords == 11

(***************************************************************************)
(* Program constants                                                       *)
(***************************************************************************)
DrainThreshold == 64000
NoiseFloor == 1000
MinTranscribeLen == 1000
MinQuestionWords == 10
None == 0

(***************************************************************************)
(* Text: a Python str is a sequence of one-character strings.              *)
(***************************************************************************)
Whitespace == {" ", "\n"}

UpperCase == <<"A","B","C","D","E","F","G","H","I","J","K","L","M",
               "N","O","P","Q","R","S","T","U","V","W","X","Y","Z">>
LowerCase == <<"a","b","c","d","e","f","g","h","i","j","k","l","m",
               "n","o","p","q","r","s","t","u","v","w","x","y","z">>

\* (variant) the letter case is kept
LowerKept(c) == c

Lower(c) ==
  IF \E i \in 1..Len(UpperCase) : UpperCase[i] = c
  THEN LowerCase[CHOOSE i \in 1..Len(UpperCase) : UpperCase[i] = c]
  ELSE c

LowerStr(s) == [i \in 1..Len(s) |-> Lower(s[i])]

RECURSIVE LStrip(_)
LStrip(s) ==
  IF s = <<>> THEN <<>>
  ELSE IF Head(s) \in Whitespace THEN LStrip(Tail(s)) ELSE s

RECURSIVE RStrip(_)
RStrip(s) ==
  IF s = <<>> THEN <<>>
  ELSE IF s[Len(s)] \in Whitespace THEN RStrip(SubSeq(s, 1, Len(s) - 1)) ELSE s

\* (variant) only the left end is stripped
StripLeftOnly(s) == LStrip(s)

Strip(s) == RStrip(LStrip(s))

\* str.split(): the maximal runs of non-whitespace characters, in order
RECURSIVE SplitFrom(_, _, _)
SplitFrom(s, cur, acc) ==
  IF s = <<>> THEN (IF cur = <<>> THEN acc ELSE Append(acc, cur))
  ELSE IF Head(s) \in Whitespace
       THEN SplitFrom(Tail(s), <<>>, IF cur = <<>> THEN acc ELSE Append(acc, cur))
       ELSE SplitFrom(Tail(s), Append(cur, Head(s)), acc)

Split(s) == SplitFrom(s, <<>>, <<>>)

EndsWith(s, c) == s # <<>> /\ s[Len(s)] = c

question_starters ==
  { <<"w","h","a","t">>, <<"h","o","w">>, <<"w","h","y">>, <<"t","e","l","l">>,
    <<"d","e","s","c","r","i","b","e">>, <<"e","x","p","l","a","i","n">>,
    <<"c","a","n">>, <<"c","o","u","l","d">>, <<"w","o","u","l","d">>,
    <<"d","o">>, <<"d","o","e","s">>, <<"h","a","v","e">>,
    <<"w","h","e","r","e">>, <<"w","h","e","n">> }

\* (variant) the word count must exceed the minimum
is_complete_question_over(text0) ==
  LET text == Strip(text0) IN
    IF text = <<>> THEN FALSE
    ELSE IF EndsWith(text, "?") THEN TRUE
    ELSE IF Len(Split(text)) > MinQuestionWords
         THEN Split(LowerStr(text))[1] \in question_starters
         ELSE FALSE

is_complete_question(text0) ==
  LET text == Strip(text0) IN
    IF text = <<>> THEN FALSE
    ELSE IF EndsWith(text, "?") THEN TRUE
    ELSE IF Len(Split(text)) >= MinQuestionWords
         THEN Split(LowerStr(text))[1] \in question_starters
         ELSE FALSE

(***************************************************************************)
(* Inputs                                                                  *)
(***************************************************************************)
Weakness ==
  <<"w","h","a","t"," ","i","s"," ","y","o","u","r"," ",
    "b","i","g","g","e","s","t"," ","w","e","a","k","n","e","s","s">>

\* results the speech-to-text engine may return for one audio block
Texts ==
  { <<>>,
    Weakness,
    <<" ">>,
    <<"o","k","?">>,
    <<" ","H","o","w"," ","a"," ","a"," ","a"," ","a">>,
    <<"W","h","a","t"," ","a"," ","a"," ","a"," ","a"," ","a"," ","a"," ","a"," ","a"," ","a">> }

\* decoded audio payloads of audio_chunk messages: name and byte length
Payloads == { [name |-> "p1", len |-> 64000],
              [name |-> "p2", len |-> 501],
              [name |-> "p3", len |-> 2000] }

NoData == [name |-> "", len |-> 0]

\* arguments for is_complete_question, given by their make-up: leading
\* whitespace, a first word, further words "a" up to nwords in all, the
\* separator between words, a "?" right after the last word or not, trailing
\* whitespace.  starter says whether the first word, in lower case, is one of
\* the question starters of the source, as read off the source by hand.
FirstWords ==
  { [word |-> <<"w","h","a","t">>, starter |-> TRUE],
    [word |-> <<"W","h","a","t">>, starter |-> TRUE],
    [word |-> <<"D","O","E","S">>, starter |-> TRUE],
    [word |-> <<"T","e","l","l">>, starter |-> TRUE],
    [word |-> <<"w","h","a","t","e","v","e","r">>, starter |-> FALSE],
    [word |-> <<"w","h","a","t",",">>, starter |-> FALSE],
    [word |-> <<"a">>, starter |-> FALSE] }

NoWord == [word |-> <<>>, starter |-> FALSE]

QuestionInputs ==
  [ lead : {<<>>, <<" ">>},
    first : FirstWords,
    nwords : 1..MaxWords,
    sep : {<<" ">>, <<" ", " ">>, <<"\n">>},
    mark : {<<>>, <<"?">>},
    trail : {<<>>, <<" ">>, <<"\n">>} ]
  \cup
  [ lead : {<<>>, <<" ">>},
    first : {NoWord},
    nwords : {0},
    sep : {<<" ">>},
    mark : {<<>>, <<"?">>},
    trail : {<<>>, <<" ">>, <<"\n">>} ]

NoInput == [lead |-> <<>>, first |-> NoWord, nwords |-> 0, sep |-> <<" ">>,
            mark |-> <<>>, trail |-> <<>>]

RECURSIVE MoreWords(_, _)
MoreWords(n, sep) == IF n <= 0 THEN <<>> ELSE sep \o <<"a">> \o MoreWords(n - 1, sep)

\* the str that an input stands for
Render(in) ==
  in.lead \o in.first.word \o MoreWords(in.nwords - 1, in.sep) \o in.mark \o in.trail
BadBase64 == [name |-> "!", len |-> 0]

AbsentQuestion == [present |-> FALSE, value |-> <<>>]
GivenQuestions == { [present |-> TRUE, value |-> <<>>],
                    [present |-> TRUE, value |-> <<"W","h","y","?">>] }

NoType == "<absent>"
KnownTypes == {"start_session", "audio_chunk", "end_session", "generate_answer"}
UnknownTypes == {"pause", NoType}

Msg(f, t, d, q) == [frame |-> f, type |-> t, data |-> d, question |-> q]

NoMsg == Msg("", "", NoData, AbsentQuestion)

\* str(msg_type) as the f-string of line 107 renders it
TypeName(t) == IF t = NoType THEN "None" ELSE t

(***************************************************************************)
(* State                                                                   *)
(***************************************************************************)
VARIABLES
  pc,                   \* where the connection's task is suspended
  stack,                \* the handler calls the task is inside, outermost first
  peer,                 \* "open" or "gone": the client end of the websocket
  msg,                  \* the message the reader loop is handling
  nmsgs,                \* number of frames received so far
  db_session_id,        \* InterviewSession.db_session_id (None = 0)
  audio_buffer,         \* InterviewSession.audio_buffer: the appended chunks
  transcription_buffer, \* InterviewSession.transcription_buffer
  last_question,        \* InterviewSession.last_question
  is_processing,        \* InterviewSession.is_processing
  processing_lock,      \* TRUE while InterviewSession.processing_lock is held
  audio_data,           \* process_audio_buffer: the drained block
  question,             \* the question local of the two pipelines
  answer,               \* generate_and_send_answer: (answer, key_points)
  cv_text,              \* generate_and_send_answer: the summary given to the call
  executor_jobs,        \* _transcribe_sync jobs running in the thread pool
  llm_calls,            \* chat.completions.create requests outstanding
  api_key,              \* settings: an LLM API key is configured
  ai_initialized,       \* AIGenerator._initialized
  db_sessions,          \* table interview_sessions, row id = index
  db_qa,                \* table interview_qa, in insertion order
  cv_context,           \* cv_context_manager._contexts[DEFAULT_SESSION]
  sent,                 \* events delivered to the client for the current message
  recv_buffer,          \* audio_buffer as it was when msg was received
  passes,               \* blocks drained while handling msg, in order
  heard,                \* texts transcribe returned while handling msg, in order
  text_in,              \* is_complete_question called on its own: the argument
  text_out              \* ... and what it returned, <<>> before the call

vars == << pc, stack, peer, msg, nmsgs, db_session_id, audio_buffer,
           transcription_buffer, last_question, is_processing, processing_lock,
           audio_data, question, answer, executor_jobs, llm_calls, api_key,
           ai_initialized, db_sessions, db_qa, cv_context, sent, recv_buffer,
           passes, heard, cv_text, text_in, text_out >>

\* the fields of InterviewSession
sessVars == << db_session_id, audio_buffer, transcription_buffer, last_question,
               is_processing, processing_lock >>

\* the current state as one record, so that the code between two suspension
\* points can be written as a function from state to state
S == [ pc |-> pc, stack |-> stack, peer |-> peer, msg |-> msg, nmsgs |-> nmsgs,
       db_session_id |-> db_session_id, audio_buffer |-> audio_buffer,
       transcription_buffer |-> transcription_buffer,
       last_question |-> last_question, is_processing |-> is_processing,
       processing_lock |-> processing_lock, audio_data |-> audio_data,
       question |-> question, answer |-> answer, executor_jobs |-> executor_jobs,
       llm_calls |-> llm_calls, api_key |-> api_key,
       ai_initialized |-> ai_initialized, db_sessions |-> db_sessions,
       db_qa |-> db_qa, cv_context |-> cv_context, sent |-> sent, recv_buffer |-> recv_buffer,
       passes |-> passes, heard |-> heard, cv_text |-> cv_text ]

Becomes(t) ==
  /\ pc' = t.pc
  /\ stack' = t.stack
  /\ peer' = t.peer
  /\ msg' = t.msg
  /\ nmsgs' = t.nmsgs
  /\ db_session_id' = t.db_session_id
  /\ audio_buffer' = t.audio_buffer
  /\ transcription_buffer' = t.transcription_buffer
  /\ last_question' = t.last_question
  /\ is_processing' = t.is_processing
  /\ processing_lock' = t.processing_lock
  /\ audio_data' = t.audio_data
  /\ question' = t.question
  /\ answer' = t.answer
  /\ executor_jobs' = t.executor_jobs
  /\ llm_calls' = t.llm_calls
  /\ api_key' = t.api_key
  /\ ai_initialized' = t.ai_initialized
  /\ db_sessions' = t.db_sessions
  /\ db_qa' = t.db_qa
  /\ cv_context' = t.cv_context
  /\ sent' = t.sent
  /\ recv_buffer' = t.recv_buffer
  /\ passes' = t.passes
  /\ heard' = t.heard
  /\ cv_text' = t.cv_text
  /\ UNCHANGED <<text_in, text_out>>

\* what the environment decides during one step: the exception class a send
\* on a dead channel raises, and whether each database call succeeds
AllEnvs == [ kind : {"disconnect", "other"},
             dbA : BOOLEAN,    \* create_session / add_qa
             dbE : BOOLEAN,    \* end_session called by handle_end_session
             dbD : BOOLEAN ]   \* end_session called by the disconnect handler

\* the decisions that can make a difference to a step: no send fails while
\* the peer is there, and a step that cannot reach create_session / add_qa
\* (useA) or handle_end_session's end_session (useE) has no outcome for them
Envs(useA, useE) ==
  { e \in AllEnvs : /\ (peer = "open" => (e.kind = "disconnect" /\ e.dbD))
                    /\ (~useA => e.dbA)
                    /\ (~useE => e.dbE) }

\* the task is inside handle_end_session
InEnd == stack # <<>> /\ stack[1] = "handle_end_session"

(***************************************************************************)
(* Outbound events                                                         *)
(***************************************************************************)
Event == [ type |-> "", status |-> "", text |-> <<>>, full_text |-> <<>>,
           is_final |-> FALSE, question |-> <<>>, answer |-> "",
           key_points |-> <<>>, message |-> <<"", "">> ]

StatusEvent(st) == [Event EXCEPT !.type = "status", !.status = st]

ErrorEvent(what, detail) ==
  [Event EXCEPT !.type = "error", !.message = <<what, detail>>]

PartialEvent(chunk, full) ==
  [Event EXCEPT !.type = "transcription", !.text = chunk, !.full_text = full,
                !.is_final = FALSE]

FinalEvent(q) ==
  [Event EXCEPT !.type = "transcription", !.text = q, !.is_final = TRUE]

ResponseEvent(q, a) ==
  [Event EXCEPT !.type = "ai_response", !.question = q, !.answer = a.text,
                !.key_points = a.key_points]

\* (variant) the error does not name the type
UnknownTypeErrorGeneric(t) == ErrorEvent("Unknown message type", "")

UnknownTypeError(t) == ErrorEvent("Unknown message type", TypeName(t))

\* websocket.send_json delivers only while the peer is there
SendOk(s) == s.peer = "open"

Emit(s, ev) == [s EXCEPT !.sent = Append(@, ev)]

(***************************************************************************)
(* CV context (services/cv_processor.py, routers/cv.py)                    *)
(***************************************************************************)
SUPPORTED_EXTENSIONS == {".pdf", ".docx", ".doc", ".txt"}
MaxUploadBytes == 10485760
SummaryMaxLength == 2000

NoText == [name |-> "", len |-> 0]

\* get_context returns None: no filename, no text, no summary
NoContext == [filename |-> "", text |-> NoText, summary |-> NoText]

\* files a client may upload: extension, size, and what extract_text yields
Uploads ==
  { [filename |-> "a.pdf", ext |-> ".pdf", size |-> 4000, error |-> FALSE,
     text |-> [name |-> "cv a", len |-> 1500]],
    [filename |-> "b.txt", ext |-> ".txt", size |-> 9000, error |-> FALSE,
     text |-> [name |-> "cv b", len |-> 5000]],
    [filename |-> "c.exe", ext |-> ".exe", size |-> 4000, error |-> FALSE,
     text |-> [name |-> "cv c", len |-> 1500]],
    [filename |-> "d.pdf", ext |-> ".pdf", size |-> 10485761, error |-> FALSE,
     text |-> [name |-> "cv d", len |-> 1500]],
    [filename |-> "e.pdf", ext |-> ".pdf", size |-> 4000, error |-> TRUE,
     text |-> NoText],
    [filename |-> "f.txt", ext |-> ".txt", size |-> 4000, error |-> FALSE,
     text |-> NoText] }

\* create_summary: the text itself up to 2000 characters, else a truncation
create_summary(text) ==
  IF text.len <= SummaryMaxLength THEN text
  ELSE [name |-> text.name, len |-> SummaryMaxLength]

\* upload_cv, lines 27-51: the file is turned down with status 400
\* (variant) a file without text is stored
UploadRejectedUnlessEmpty(f) ==
  \/ f.ext \notin SUPPORTED_EXTENSIONS
  \/ f.size > MaxUploadBytes
  \/ f.error

UploadRejected(f) ==
  \/ f.ext \notin SUPPORTED_EXTENSIONS
  \/ f.size > MaxUploadBytes
  \/ f.error
  \/ f.text.len = 0

set_context(filename, text, summary) ==
  [filename |-> filename, text |-> text, summary |-> summary]

(***************************************************************************)
(* Database (models/database.py)                                           *)
(***************************************************************************)
\* create_session: INSERT; the new row id is returned
\* (ids are AUTOINCREMENT: the id of a deleted row is never given again, so a
\* deleted row keeps its place in the sequence and is marked deleted)
create_session(s, filename, text) ==
  [s EXCEPT !.db_sessions =
       Append(@, [cv_filename |-> filename, cv_text |-> text, ended_writes |-> 0,
                  deleted |-> FALSE])]

lastrowid(s) == Len(s.db_sessions)

\* end_session: UPDATE ... SET ended_at = now WHERE id = session_id
end_session(s, id) ==
  IF s.db_sessions[id].deleted THEN s
  ELSE [s EXCEPT !.db_sessions[id].ended_writes = @ + 1]

Ended(s, id) == s.db_sessions[id].ended_writes > 0

\* add_qa: INSERT.  session_ended records whether the session row already
\* had ended_at set when the row was inserted.
add_qa(s, id, q, a) ==
  [s EXCEPT !.db_qa =
       Append(@, [session_id |-> id, question |-> q, answer |-> a.text,
                  key_points |-> a.key_points, session_ended |-> Ended(s, id)])]

\* the session row is in the table
SessionExists(s, id) == id \in DOMAIN s.db_sessions /\ ~s.db_sessions[id].deleted

\* delete_session: DELETE of the session's Q&A rows, DELETE of the session
\* row, one commit
delete_session(s, id) ==
  [s EXCEPT !.db_qa = SelectSeq(@, LAMBDA r : r.session_id # id),
            !.db_sessions[id].deleted = TRUE]

(***************************************************************************)
(* Answer generator (services/ai_generator.py)                             *)
(***************************************************************************)
NoAnswer == [text |-> "", key_points |-> <<>>]
LLMAnswer == [text |-> "answer", key_points |-> <<"point">>]
Apology == [text |-> "apology", key_points |-> <<>>]

\* (variant) initialize() called inside the try block: nothing is raised
generate_answer_raises_never(initialized, key) == FALSE

\* generate_answer raises only from initialize(), which is called outside
\* its try block: get_llm_provider raises when no API key is configured
generate_answer_raises(initialized, key) == ~initialized /\ ~key

\* (variant) a failed request gives an empty answer
generate_answer_result_blank(ok) == IF ok THEN LLMAnswer ELSE NoAnswer

\* what generate_answer returns once the LLM request has finished
generate_answer_result(ok) == IF ok THEN LLMAnswer ELSE Apology

(***************************************************************************)
(* Transcription service (services/transcription.py)                       *)
(***************************************************************************)
RECURSIVE BufLen(_)
BufLen(buf) == IF buf = <<>> THEN 0 ELSE Head(buf).len + BufLen(Tail(buf))

RawChunk(p) == [name |-> p.name, form |-> "raw", len |-> p.len]
PcmChunk(p) == [name |-> p.name, form |-> "pcm", len |-> 2 * p.len]
EmptyChunk == [name |-> "", form |-> "pcm", len |-> 0]

ConvertOutcomes == {"pcm", "empty", "fallback"}

\* convert_webm_to_pcm: ffmpeg's output, or the input itself when ffmpeg fails
convert_webm_to_pcm(p, conv) ==
  CASE conv = "pcm" -> PcmChunk(p)
    [] conv = "empty" -> EmptyChunk
    [] OTHER -> RawChunk(p)

\* (variant) the await gives up on a job that keeps running
AwaitExecutorAbandon(jobs) == jobs

\* the number of executor jobs still running when the await of
\* run_in_executor (line 80) returns: the awaited job has finished
AwaitExecutor(jobs) == jobs - 1

(***************************************************************************)
(* The connection task (websockets/audio_handler.py)                       *)
(***************************************************************************)
Top(st) == IF st = <<>> THEN "" ELSE st[Len(st)]
Pop(st) == SubSeq(st, 1, Len(st) - 1)

ToRecv(s) == [s EXCEPT !.pc = "recv", !.stack = <<>>]

Closed(s) == [s EXCEPT !.pc = "closed", !.stack = <<>>]

\* lines 109-119: an exception reaches the try block around the reader loop
ReaderExcept(s, kind, detail, env) ==
  IF kind = "disconnect"
  THEN IF s.db_session_id # None /\ env.dbD
       THEN Closed(end_session(s, s.db_session_id))
       ELSE Closed(s)
  ELSE IF SendOk(s)
       THEN Closed(Emit(s, ErrorEvent("exception", detail)))
       ELSE Closed(s)

\* (variant) the id is kept after the session was ended
IdAfterEndKept(id) == id

\* the value handle_end_session leaves in db_session_id (line 294)
IdAfterEnd(id) == None

\* (variant) the status is sent whether or not a session is open
EndSessionTailStatusAlways(s, env) ==
  IF s.db_session_id # None /\ ~env.dbE
  THEN ReaderExcept(s, "other", "database", env)
  ELSE LET s1 == IF s.db_session_id # None
                 THEN end_session(s, s.db_session_id) ELSE s IN
       IF SendOk(s1)
       THEN ToRecv([Emit(s1, StatusEvent("session_ended"))
                      EXCEPT !.db_session_id = None])
       ELSE ReaderExcept(s1, env.kind, "send", env)

\* lines 288-294
EndSessionTail(s, env) ==
  IF s.db_session_id # None
  THEN IF ~env.dbE
       THEN ReaderExcept(s, "other", "database", env)
       ELSE LET s1 == end_session(s, s.db_session_id) IN
            IF SendOk(s1)
            THEN ToRecv([Emit(s1, StatusEvent("session_ended"))
                           EXCEPT !.db_session_id = IdAfterEnd(@)])
            ELSE ReaderExcept(s1, env.kind, "send", env)
  ELSE ToRecv([s EXCEPT !.db_session_id = IdAfterEnd(@)])

\* process_audio_buffer has returned to its caller
CallerResume(s, env) ==
  IF Top(s.stack) = "handle_end_session" THEN EndSessionTail(s, env) ELSE ToRecv(s)

\* (variant) no finally clause: the flag stays set
ProcessFinallyFlagKept(s, env) ==
  CallerResume([s EXCEPT !.audio_data = <<>>, !.question = <<>>,
                         !.stack = Pop(@)], env)

\* lines 211-215: except (log only), finally, return
ProcessFinally(s, env) ==
  CallerResume([s EXCEPT !.is_processing = FALSE, !.audio_data = <<>>,
                         !.question = <<>>, !.stack = Pop(@)], env)

\* (variant) the block of the failed call is put back for a retry
TranscribeRaisedRequeue(s, env) ==
  ProcessFinally([s EXCEPT !.audio_buffer = s.audio_data], env)

\* line 181 raises (transcription.py line 76): except and finally, 211-215
TranscribeRaised(s, env) == ProcessFinally(s, env)

\* (variant) the text is tested without strip()
AfterTranscribeUnstripped(s, text, env) ==
  LET s0 == [s EXCEPT !.heard = Append(@, text)] IN
    IF text = <<>>
    THEN ProcessFinally(s0, env)
    ELSE LET s1 == [s0 EXCEPT !.transcription_buffer = Strip(@ \o <<" ">> \o text)] IN
         IF SendOk(s1)
         THEN [Emit(s1, PartialEvent(text, s1.transcription_buffer))
                 EXCEPT !.pc = "sent_partial"]
         ELSE ProcessFinally(s1, env)

\* lines 181-194: the transcription call returned text
AfterTranscribe(s, text, env) ==
  LET s0 == [s EXCEPT !.heard = Append(@, text)] IN
    IF Strip(text) = <<>>
    THEN ProcessFinally(s0, env)
    ELSE LET s1 == [s0 EXCEPT !.transcription_buffer = Strip(@ \o <<" ">> \o text)] IN
         IF SendOk(s1)
         THEN [Emit(s1, PartialEvent(text, s1.transcription_buffer))
                 EXCEPT !.pc = "sent_partial"]
         ELSE ProcessFinally(s1, env)

\* line 171: async with session.processing_lock, entered and left
AcquireLock(s) == [s EXCEPT !.processing_lock = TRUE]
ReleaseLock(s) == [s EXCEPT !.processing_lock = FALSE]

\* (variant) the buffer is copied but not cleared
DrainBufferKept(s) ==
  [s EXCEPT !.audio_data = s.audio_buffer,
            !.passes = Append(@, s.audio_buffer)]

\* lines 177-178: the block handed to transcribe, and the cleared buffer
DrainBuffer(s) ==
  [s EXCEPT !.audio_data = s.audio_buffer,
            !.audio_buffer = <<>>,
            !.passes = Append(@, s.audio_buffer)]

\* lines 169-181, entered with the caller on the stack
process_audio_buffer(s, env) ==
  IF AcquireLock(s).is_processing
  THEN CallerResume(ReleaseLock(AcquireLock(s)), env)
  ELSE LET s0 == ReleaseLock([AcquireLock(s) EXCEPT !.is_processing = TRUE])
           s1 == DrainBuffer([s0 EXCEPT
                                !.stack = Append(@, "process_audio_buffer")]) IN
       IF BufLen(s1.audio_data) < MinTranscribeLen
       THEN AfterTranscribe(s1, <<>>, env)
       ELSE IF BufLen(s1.audio_data) % 2 = 1
            THEN TranscribeRaised(s1, env)
            ELSE [s1 EXCEPT !.pc = "transcribing", !.executor_jobs = @ + 1]

\* an exception leaves generate_and_send_answer
GenerateEscape(s, env) ==
  LET s1 == [s EXCEPT !.stack = Pop(@), !.answer = NoAnswer,
                      !.cv_text = NoText] IN
    IF Top(s1.stack) = "process_audio_buffer"
    THEN ProcessFinally(s1, env)
    ELSE ReaderExcept([s1 EXCEPT !.question = <<>>], env.kind, "send", env)

\* (variant) the transcript is reset by generate_and_send_answer itself
GenerateDoneBufferReset(s, env) ==
  LET s1 == [s EXCEPT !.stack = Pop(@), !.answer = NoAnswer,
                      !.cv_text = NoText, !.transcription_buffer = <<>>] IN
    IF Top(s1.stack) = "process_audio_buffer"
    THEN ProcessFinally(s1, env)
    ELSE ToRecv([s1 EXCEPT !.question = <<>>])

\* generate_and_send_answer returns normally
GenerateDone(s, env) ==
  LET s1 == [s EXCEPT !.stack = Pop(@), !.answer = NoAnswer,
                      !.cv_text = NoText] IN
    IF Top(s1.stack) = "process_audio_buffer"
    THEN ProcessFinally(s1, env)
    ELSE ToRecv([s1 EXCEPT !.question = <<>>])

\* lines 277-279
GenerateFail(s, detail, env) ==
  IF SendOk(s)
  THEN GenerateDone(Emit(s, ErrorEvent("Failed to generate answer", detail)), env)
  ELSE GenerateEscape(s, env)

\* (variant) the "generating" status is not sent
generate_and_send_answer_silent(s, q, env) ==
  [s EXCEPT !.stack = Append(@, "generate_and_send_answer"), !.question = q,
            !.pc = "sent_status"]

\* line 244, entered with the caller on the stack
generate_and_send_answer(s, q, env) ==
  LET s1 == [s EXCEPT !.stack = Append(@, "generate_and_send_answer"),
                      !.question = q] IN
    IF SendOk(s1)
    THEN [Emit(s1, StatusEvent("generating")) EXCEPT !.pc = "sent_status"]
    ELSE GenerateEscape(s1, env)

\* (variant) the last pass uses the drain threshold of handle_audio_chunk
HasRemainingAudioAtThreshold(buf) == BufLen(buf) >= DrainThreshold

\* the buffered audio that makes handle_end_session run a last pass (line 285)
HasRemainingAudio(buf) == BufLen(buf) > NoiseFloor

\* the buffered audio that makes handle_audio_chunk run a pass (line 162)
ShouldDrain(buf) == BufLen(buf) >= DrainThreshold

\* (variant) the buffer is not cleared
BufferAfterBoundaryKept(buf) == buf

\* the value left in transcription_buffer when a question is taken (line 199)
BufferAfterBoundary(buf) == <<>>

\* a frame has been read by receive_text
OnReceive(m) ==
  [S EXCEPT !.msg = m, !.nmsgs = @ + 1, !.sent = <<>>,
            !.recv_buffer = audio_buffer, !.passes = <<>>, !.heard = <<>>]

(***************************************************************************)
(* Actions                                                                 *)
(***************************************************************************)
Init ==
  /\ pc = "start"
  /\ stack = <<>>
  /\ peer = "open"
  /\ msg = NoMsg
  /\ nmsgs = 0
  /\ db_session_id = None
  /\ audio_buffer = <<>>
  /\ transcription_buffer = <<>>
  /\ last_question = <<>>
  /\ is_processing = FALSE
  /\ processing_lock = FALSE
  /\ audio_data = <<>>
  /\ question = <<>>
  /\ answer = NoAnswer
  /\ executor_jobs = 0
  /\ llm_calls = 0
  /\ api_key \in BOOLEAN
  /\ ai_initialized = FALSE
  /\ db_sessions = <<>>
  /\ db_qa = <<>>
  /\ cv_context = NoContext
  /\ sent = <<>>
  /\ recv_buffer = <<>>
  /\ passes = <<>>
  /\ heard = <<>>
  /\ cv_text = NoText
  /\ text_in = NoInput
  /\ text_out = <<>>

\* the client goes away; later sends raise, frames already queued are still read
PeerDisconnect ==
  /\ pc # "closed"
  /\ peer = "open"
  /\ peer' = "gone"
  /\ UNCHANGED << pc, stack, msg, nmsgs, db_session_id, audio_buffer,
                  transcription_buffer, last_question, is_processing,
                  processing_lock, audio_data, question, answer, executor_jobs,
                  llm_calls, api_key, ai_initialized, db_sessions, db_qa,
                  cv_context, sent, recv_buffer, passes, heard, cv_text,
                  text_in, text_out >>

\* (variant) no return after the close: the reader loop is entered
PreloadFailedNoReturn(s) ==
  ToRecv(Emit(s, ErrorEvent("Failed to load models", "load")))

\* lines 72-76: load_model raised
PreloadFailed(s) ==
  Closed(Emit(s, ErrorEvent("Failed to load models", "load")))

\* lines 62-76: accept, preload the transcription model
Preload ==
  /\ pc = "start"
  /\ \E ok \in BOOLEAN :
       Becomes(
         IF ~SendOk(S) THEN Closed(S)
         ELSE LET s1 == Emit(S, StatusEvent("loading")) IN
              IF ok THEN ToRecv(Emit(s1, StatusEvent("ready")))
              ELSE PreloadFailed(s1))

\* (variant) the reader takes the next message while generate_answer runs
CanReceiveWhileGenerating == pc \in {"recv", "generating"} /\ nmsgs < MaxMsgs

\* line 81: the reader is back at receive_text
CanReceive == pc = "recv" /\ nmsgs < MaxMsgs

\* POST /api/cv/upload
UploadCV ==
  /\ pc # "closed"
  /\ \E f \in Uploads :
       Becomes(IF UploadRejected(f) THEN S
               ELSE [S EXCEPT !.cv_context =
                       set_context(f.filename, f.text, create_summary(f.text))])

\* DELETE /api/cv/clear
ClearCV ==
  /\ pc # "closed"
  /\ Becomes([S EXCEPT !.cv_context = NoContext])

\* line 81 raises WebSocketDisconnect
ReceiveDisconnect ==
  /\ pc = "recv"
  /\ peer = "gone"
  /\ \E env \in Envs(FALSE, FALSE) : Becomes(ReaderExcept(S, "disconnect", "", env))

\* lines 83-87: the frame is not JSON
ReceiveInvalidJson ==
  /\ CanReceive
  /\ \E env \in Envs(FALSE, FALSE) :
       LET s == OnReceive(Msg("invalid_json", "", NoData, AbsentQuestion)) IN
         Becomes(IF SendOk(s)
                 THEN ToRecv(Emit(s, ErrorEvent("Invalid JSON message", "")))
                 ELSE ReaderExcept(s, env.kind, "send", env))

\* line 89: the frame is JSON but not an object, message.get raises
ReceiveNonObject ==
  /\ CanReceive
  /\ \E env \in Envs(FALSE, FALSE) :
       LET s == OnReceive(Msg("non_object", "", NoData, AbsentQuestion)) IN
         Becomes(ReaderExcept(s, "other", "no attribute get", env))

\* (variant) the summary is stored in place of the full text
SessionCvSummary(ctx) == [filename |-> ctx.filename, text |-> ctx.summary]

\* lines 124-127 and 130-133: what start_session reads from the CV context
SessionCv(ctx) == [filename |-> ctx.filename, text |-> ctx.text]

\* (variant) the audio of the previous session is kept
ResetBuffersTextOnly(s) == [s EXCEPT !.transcription_buffer = <<>>]

\* lines 136-137
ResetBuffers(s) ==
  [s EXCEPT !.audio_buffer = <<>>, !.transcription_buffer = <<>>]

\* lines 91-92, 122-140
ReceiveStartSession ==
  /\ CanReceive
  /\ \E env \in Envs(TRUE, FALSE) :
       LET s == OnReceive(Msg("object", "start_session", NoData, AbsentQuestion)) IN
         Becomes(
           IF ~env.dbA THEN ReaderExcept(s, "other", "database", env)
           ELSE LET cv == SessionCv(cv_context)
                    s1 == create_session(s, cv.filename, cv.text)
                    s2 == ResetBuffers([s1 EXCEPT !.db_session_id = lastrowid(s1)]) IN
                IF SendOk(s2)
                THEN ToRecv(Emit(s2, StatusEvent("session_started")))
                ELSE ReaderExcept(s2, env.kind, "send", env))

\* lines 94-95, 143-166
ReceiveAudioChunk ==
  /\ CanReceive
  /\ \E d \in Payloads \cup {NoData, BadBase64}, conv \in ConvertOutcomes, env \in Envs(FALSE, FALSE) :
       LET s == OnReceive(Msg("object", "audio_chunk", d, AbsentQuestion)) IN
         Becomes(
           IF d = NoData \/ d = BadBase64 THEN ToRecv(s)
           ELSE LET pcm_data == convert_webm_to_pcm(d, conv)
                    chunk == IF pcm_data.len > 0 THEN pcm_data ELSE RawChunk(d)
                    s1 == [s EXCEPT !.audio_buffer = Append(@, chunk),
                                    !.stack = <<"handle_audio_chunk">>] IN
                IF ShouldDrain(s1.audio_buffer)
                THEN process_audio_buffer(s1, env)
                ELSE ToRecv(s1))

\* (variant) the session is marked ended before the remaining audio is
\* processed
ReceiveEndSessionEndedFirst ==
  /\ CanReceive
  /\ \E env \in Envs(FALSE, TRUE) :
       LET s0 == [OnReceive(Msg("object", "end_session", NoData, AbsentQuestion))
                    EXCEPT !.stack = <<"handle_end_session">>]
           s == IF s0.db_session_id # None
                THEN end_session(s0, s0.db_session_id) ELSE s0 IN
         Becomes(IF HasRemainingAudio(s.audio_buffer)
                 THEN process_audio_buffer(s, env)
                 ELSE EndSessionTail(s, env))

\* lines 97-98, 282-294
ReceiveEndSession ==
  /\ CanReceive
  /\ \E env \in Envs(FALSE, TRUE) :
       LET s == [OnReceive(Msg("object", "end_session", NoData, AbsentQuestion))
                   EXCEPT !.stack = <<"handle_end_session">>] IN
         Becomes(IF HasRemainingAudio(s.audio_buffer)
                 THEN process_audio_buffer(s, env)
                 ELSE EndSessionTail(s, env))

\* (variant) the question field of the message is not looked at
ManualQuestionFromBuffer(q, buf) == buf

\* line 102: message.get("question", session.transcription_buffer)
ManualQuestion(q, buf) == IF q.present THEN q.value ELSE buf

\* lines 100-104
ReceiveGenerateAnswer ==
  /\ CanReceive
  /\ \E q \in GivenQuestions \cup {AbsentQuestion}, env \in Envs(FALSE, FALSE) :
       LET s == OnReceive(Msg("object", "generate_answer", NoData, q))
           qq == ManualQuestion(q, s.transcription_buffer) IN
         Becomes(IF qq # <<>>
                 THEN generate_and_send_answer(s, qq, env)
                 ELSE ToRecv(s))

\* lines 106-107
ReceiveUnknownType ==
  /\ CanReceive
  /\ \E t \in UnknownTypes, env \in Envs(FALSE, FALSE) :
       LET s == OnReceive(Msg("object", t, NoData, AbsentQuestion)) IN
         Becomes(IF SendOk(s)
                 THEN ToRecv(Emit(s, UnknownTypeError(t)))
                 ELSE ReaderExcept(s, env.kind, "send", env))

\* line 181 returns: the executor job has produced its text
TranscribeReturn ==
  /\ pc = "transcribing"
  /\ \E text \in Texts, env \in Envs(FALSE, InEnd) :
       /\ Len(transcription_buffer) + 1 + Len(text) <= MaxTranscript
       /\ Becomes(AfterTranscribe([S EXCEPT !.executor_jobs = AwaitExecutor(@)],
                                  text, env))

\* lines 196-206: the send of the partial transcription has returned
CheckBoundary ==
  /\ pc = "sent_partial"
  /\ \E env \in Envs(FALSE, InEnd) :
       Becomes(
         IF is_complete_question(transcription_buffer)
         THEN LET s1 == [S EXCEPT !.question = transcription_buffer,
                                  !.transcription_buffer = BufferAfterBoundary(@)] IN
              IF SendOk(s1)
              THEN [Emit(s1, FinalEvent(s1.question)) EXCEPT !.pc = "sent_final"]
              ELSE ProcessFinally(s1, env)
         ELSE ProcessFinally(S, env))

\* lines 209, 244: the send of the final transcription has returned
StartGenerate ==
  /\ pc = "sent_final"
  /\ \E env \in Envs(FALSE, InEnd) : Becomes(generate_and_send_answer(S, question, env))

\* lines 247-248: the summary of the stored context, None without one
ContextSummary(ctx) == ctx.summary

\* lines 247-255 and ai_generator 124-137: the status send has returned
CallGenerate ==
  /\ pc = "sent_status"
  /\ \E env \in Envs(FALSE, InEnd) :
       LET s1 == [S EXCEPT !.cv_text = ContextSummary(cv_context)] IN
         Becomes(IF generate_answer_raises(ai_initialized, api_key)
                 THEN GenerateFail(s1, "initialize", env)
                 ELSE [s1 EXCEPT !.ai_initialized = TRUE, !.llm_calls = @ + 1,
                                 !.pc = "generating"])

\* lines 252-264: generate_answer has returned
GenerateReturn ==
  /\ pc = "generating"
  /\ \E ok \in BOOLEAN, env \in Envs(FALSE, InEnd) :
       LET s1 == [S EXCEPT !.llm_calls = @ - 1,
                           !.answer = generate_answer_result(ok)] IN
         Becomes(IF SendOk(s1)
                 THEN [Emit(s1, ResponseEvent(s1.question, s1.answer))
                         EXCEPT !.pc = "sent_response"]
                 ELSE GenerateFail(s1, "send", env))

\* (variant) no test of db_session_id: the insert without a session id is
\* refused by the database and reported
SaveAnswerUnguarded(s, env) ==
  IF s.db_session_id # None /\ env.dbA
  THEN GenerateDone([add_qa(s, s.db_session_id, s.question, s.answer)
                       EXCEPT !.last_question = s.question], env)
  ELSE GenerateFail(s, "database", env)

\* lines 266-275
SaveAnswer(s, env) ==
  IF s.db_session_id # None
  THEN IF env.dbA
       THEN GenerateDone([add_qa(s, s.db_session_id, s.question, s.answer)
                            EXCEPT !.last_question = s.question], env)
       ELSE GenerateFail(s, "database", env)
  ELSE GenerateDone([s EXCEPT !.last_question = s.question], env)

\* lines 266-275: the send of the ai_response has returned
PersistAnswer ==
  /\ pc = "sent_response"
  /\ \E env \in Envs(TRUE, InEnd) : Becomes(SaveAnswer(S, env))

Next ==
  \/ PeerDisconnect
  \/ UploadCV
  \/ ClearCV
  \/ Preload
  \/ ReceiveDisconnect
  \/ ReceiveInvalidJson
  \/ ReceiveNonObject
  \/ ReceiveStartSession
  \/ ReceiveAudioChunk
  \/ ReceiveEndSession
  \/ ReceiveGenerateAnswer
  \/ ReceiveUnknownType
  \/ TranscribeReturn
  \/ CheckBoundary
  \/ StartGenerate
  \/ CallGenerate
  \/ GenerateReturn
  \/ PersistAnswer

Spec == Init /\ [][Next]_vars

\* is_complete_question on its own: the argument is drawn at the start, the
\* call returns once; no connection is open
InitQuestion ==
  /\ pc = "start"
  /\ stack = <<>>
  /\ peer = "open"
  /\ msg = NoMsg
  /\ nmsgs = 0
  /\ db_session_id = None
  /\ audio_buffer = <<>>
  /\ transcription_buffer = <<>>
  /\ last_question = <<>>
  /\ is_processing = FALSE
  /\ processing_lock = FALSE
  /\ audio_data = <<>>
  /\ question = <<>>
  /\ answer = NoAnswer
  /\ executor_jobs = 0
  /\ llm_calls = 0
  /\ api_key = TRUE
  /\ ai_initialized = FALSE
  /\ db_sessions = <<>>
  /\ db_qa = <<>>
  /\ cv_context = NoContext
  /\ sent = <<>>
  /\ recv_buffer = <<>>
  /\ passes = <<>>
  /\ heard = <<>>
  /\ cv_text = NoText
  /\ text_in \in QuestionInputs
  /\ text_out = <<>>

CallIsCompleteQuestion ==
  /\ text_out = <<>>
  /\ text_out' = <<is_complete_question(Render(text_in))>>
  /\ UNCHANGED << pc, stack, peer, msg, nmsgs, db_session_id, audio_buffer,
                  transcription_buffer, last_question, is_processing,
                  processing_lock, audio_data, question, answer, executor_jobs,
                  llm_calls, api_key, ai_initialized, db_sessions, db_qa,
                  cv_context, sent, recv_buffer, passes, heard, cv_text,
                  text_in >>

NextQuestion == CallIsCompleteQuestion

SpecQuestion == InitQuestion /\ [][NextQuestion]_vars

\* The history router running next to the connection: DELETE
\* /api/history/{session_id} answers 404 unless get_session finds the row,
\* then calls delete_session; DELETE /api/history calls delete_session for
\* every listed session, one commit each.  The request is its own task, so
\* it runs at any await of the connection's task.
DeleteSession ==
  \E id \in DOMAIN db_sessions :
    /\ SessionExists(S, id)
    /\ Becomes(delete_session(S, id))

NextHistory ==
  \/ Next
  \/ DeleteSession

SpecHistory == Init /\ [][NextHistory]_vars

TypeOK ==
  /\ pc \in {"start", "recv", "transcribing", "sent_partial", "sent_final",
             "sent_status", "generating", "sent_response", "closed"}
  /\ peer \in {"open", "gone"}
  /\ nmsgs \in 0..MaxMsgs
  /\ db_session_id \in 0..Len(db_sessions)
  /\ is_processing \in BOOLEAN
  /\ processing_lock = FALSE
  /\ executor_jobs \in 0..1
  /\ llm_calls \in 0..1

(***************************************************************************)
(* Properties                                                              *)
(***************************************************************************)
IsFinal(ev) == ev.type = "transcription" /\ ev.is_final
IsPartial(ev) == ev.type = "transcription" /\ ~ev.is_final
IsResponse(ev) == ev.type = "ai_response"
IsGenerateError(ev) == ev.type = "error" /\ ev.message[1] = "Failed to generate answer"
Received == nmsgs' = nmsgs + 1

\* C1: at every instant at most one call of the external transcribe
\* operation (a _transcribe_sync job in the executor) is in flight, whatever
\* audio_chunk and end_session messages were received.
C1_OneTranscriptionInFlight == executor_jobs <= 1

\* a transcription is in flight for a block made of several chunks, drained
\* by a later message than the first
C1_Witness == executor_jobs = 1 /\ nmsgs >= 2 /\ Len(audio_data) >= 2

\* C2: while a transcription call or an answer-generation call is
\* outstanding, the reader can receive and dispatch the next inbound message.
C2_ReaderNotBlocked ==
  ((executor_jobs > 0 \/ llm_calls > 0) /\ nmsgs < MaxMsgs) => CanReceive

\* C3: when the question boundary fires, the is_final=true transcription
\* event carries exactly what transcription_buffer held just before it was
\* cleared, and transcription_buffer is empty from that event on until the
\* next transcription result is appended.
C3_FinalEventCarriesBuffer ==
  /\ [][ \A i \in DOMAIN sent' :
           (IsFinal(sent'[i]) /\ i > Len(sent) /\ ~Received)
             => /\ sent'[i].text = transcription_buffer
                /\ transcription_buffer' = <<>> ]_vars
  /\ []((\E i \in DOMAIN sent : IsFinal(sent[i])) => transcription_buffer = <<>>)
  /\ [][ (transcription_buffer = <<>> /\ transcription_buffer' # <<>>)
           => (pc = "transcribing" /\ executor_jobs' < executor_jobs) ]_vars

\* a question accumulated over two transcriptions was taken from the buffer
C3_Witness ==
  /\ pc = "sent_final"
  /\ transcription_buffer = <<>>
  /\ Len(Split(sent[Len(sent)].text)) >= MinQuestionWords
  /\ nmsgs >= 2

\* C4: for every question detected from audio the events reach the client in
\* the order transcription(is_final=false), transcription(is_final=true),
\* status "generating", ai_response for that question, with nothing in
\* between; and a Q&A row is inserted only after its ai_response was sent.
FromAudio == msg.type \in {"audio_chunk", "end_session"}

C4_FinalInOrder(i) ==
  /\ i > 1
  /\ IsPartial(sent[i - 1])
  /\ sent[i - 1].full_text = sent[i].text
  /\ (i + 1 \in DOMAIN sent => sent[i + 1] = StatusEvent("generating"))
  /\ (i + 2 \in DOMAIN sent =>
        \/ IsResponse(sent[i + 2]) /\ sent[i + 2].question = sent[i].text
        \/ IsGenerateError(sent[i + 2]) /\ ~api_key)

C4_ResponseInOrder(i) ==
  /\ i > 3
  /\ sent[i - 1] = StatusEvent("generating")
  /\ IsFinal(sent[i - 2])
  /\ sent[i - 2].text = sent[i].question
  /\ IsPartial(sent[i - 3])

C4_OutboundOrder ==
  /\ [](\A i \in DOMAIN sent :
          /\ IsFinal(sent[i]) => C4_FinalInOrder(i)
          /\ (IsResponse(sent[i]) /\ FromAudio) => C4_ResponseInOrder(i))
  /\ [][ db_qa' # db_qa =>
           /\ Len(db_qa') = Len(db_qa) + 1
           /\ SubSeq(db_qa', 1, Len(db_qa)) = db_qa
           /\ pc = "sent_response"
           /\ IsResponse(sent[Len(sent)])
           /\ sent[Len(sent)].question = db_qa'[Len(db_qa')].question
           /\ sent[Len(sent)].answer = db_qa'[Len(db_qa')].answer ]_vars

\* the four events were delivered for a question from audio and its row is stored
C4_Witness ==
  /\ FromAudio
  /\ Len(sent) >= 4
  /\ IsResponse(sent[4])
  /\ db_qa # <<>>
  /\ db_qa[Len(db_qa)].question = sent[4].question

\* C5: end_session received while audio_buffer holds more than 1000 bytes
\* runs exactly one transcription pass, over that buffer; ended_at is written
\* and status session_ended is sent only once that pass, with the answer
\* generation it may trigger, is over.
EndedWritten ==
  \E id \in DOMAIN db_sessions :
    db_sessions'[id].ended_writes > db_sessions[id].ended_writes

PassOver ==
  /\ passes = <<recv_buffer>>
  /\ ~is_processing
  /\ executor_jobs = 0
  /\ llm_calls = 0
  /\ pc \in {"recv", "closed"}

C5_FinalPassBeforeEnd ==
  /\ []((msg.type = "end_session" /\ BufLen(recv_buffer) > 1000)
          => passes = <<recv_buffer>>)
  /\ []((msg.type = "end_session" /\ BufLen(recv_buffer) > 1000
           /\ \E i \in DOMAIN sent : sent[i].status = "session_ended")
          => PassOver)
  /\ [][ (msg'.type = "end_session" /\ BufLen(recv_buffer') > 1000 /\ EndedWritten)
           => PassOver' ]_vars

\* a session was ended after a last pass that answered a question
C5_Witness ==
  /\ msg.type = "end_session"
  /\ pc = "recv"
  /\ BufLen(recv_buffer) > 1000
  /\ BufLen(recv_buffer) < 64000
  /\ \E i \in DOMAIN sent : sent[i].status = "session_ended"
  /\ \E i \in DOMAIN sent : IsResponse(sent[i])
  /\ \E id \in DOMAIN db_sessions : db_sessions[id].ended_writes = 1

\* C6: when the connection handler has terminated and the session was Active,
\* the persisted session is marked ended.
C6_TeardownEndsSession ==
  (pc = "closed" /\ db_session_id # None) => Ended(S, db_session_id)

\* C7: a frame that is not parseable as a message (invalid JSON, JSON that is
\* not an object, an object without type) yields an error event, changes no
\* session state and leaves the reader loop running.
Malformed(m) ==
  m.frame \in {"invalid_json", "non_object"} \/ (m.frame = "object" /\ m.type = NoType)

C7_MalformedKeepsOpen ==
  [][ (Received /\ Malformed(msg') /\ peer = "open")
        => /\ Len(sent') = 1
           /\ sent'[1].type = "error"
           /\ UNCHANGED sessVars
           /\ pc' = "recv" ]_vars

\* C8: a message whose type is none of the four known types yields exactly one
\* error event naming the received type, changes no session state, and the
\* reader goes on reading.
C8_UnknownTypeError ==
  [][ (Received /\ msg'.frame = "object" /\ msg'.type \notin KnownTypes /\ peer = "open")
        => /\ sent' = << ErrorEvent("Unknown message type", TypeName(msg'.type)) >>
           /\ UNCHANGED sessVars
           /\ pc' = "recv" ]_vars

\* an unknown type was answered while a session with buffered state was open
C8_Witness ==
  /\ msg.type = "pause"
  /\ pc = "recv"
  /\ Len(sent) = 1
  /\ db_session_id # None
  /\ audio_buffer # <<>>

\* C9: every Q&A row is inserted under a session row whose ended_at is unset
\* at that moment.
C9_QaOnlyWhileOpen == \A i \in DOMAIN db_qa : ~db_qa[i].session_ended

\* a session that holds a Q&A row has been ended afterwards
C9_Witness ==
  \E i \in DOMAIN db_qa : Ended(S, db_qa[i].session_id)

\* C10: when the answer-generation call raises (no LLM client can be
\* initialised), the pipeline sends an error event, sends no ai_response for
\* the question and inserts no Q&A row.
C10_RaiseGivesErrorOnly ==
  /\ [](~api_key => (db_qa = <<>> /\ \A i \in DOMAIN sent : ~IsResponse(sent[i])))
  /\ [][ (pc = "sent_status" /\ pc' # pc /\ ~api_key /\ peer = "open")
           => /\ Len(sent') >= Len(sent) + 1
              /\ SubSeq(sent', 1, Len(sent)) = sent
              /\ IsGenerateError(sent'[Len(sent) + 1]) ]_vars

\* the error was sent for a question asked in an Active session
C10_Witness ==
  /\ ~api_key
  /\ sent # <<>>
  /\ IsGenerateError(sent[Len(sent)])
  /\ db_session_id # None
  /\ pc = "recv"

\* C11: whenever process_audio_buffer is not running, by whatever path it was
\* left, the processing lock is free and is_processing is false, and the next
\* audio_chunk that brings the buffer to the threshold starts a new pass.
InPass == \E i \in DOMAIN stack : stack[i] = "process_audio_buffer"

ChunkOf(m) == { RawChunk(m.data), PcmChunk(m.data) }

C11_FlagFreeAfterPass ==
  /\ [](~InPass => (~is_processing /\ ~processing_lock))
  /\ [][ (Received /\ msg'.type = "audio_chunk" /\ msg'.data \in Payloads
            /\ msg'.data.len + BufLen(audio_buffer) >= 64000)
           => (Len(passes') = 1 /\ BufLen(passes'[1]) >= 64000) ]_vars

\* a pass that ended by the exception of the transcription call (a block of
\* odd length) has left the flag clear
C11_Witness ==
  /\ pc = "recv"
  /\ passes # <<>>
  /\ BufLen(passes[1]) % 2 = 1
  /\ BufLen(passes[1]) >= 64000
  /\ ~is_processing

\* C12: a generate_answer message runs the answer pipeline whenever the
\* supplied question or the transcription buffer is non-empty, on the
\* supplied question when that is non-empty and on the buffer otherwise; it
\* changes nothing only when both are empty.
Supplied(m) == IF m.question.present THEN m.question.value ELSE <<>>

C12_ManualQuestionOrBuffer ==
  [][ (Received /\ msg'.type = "generate_answer" /\ peer = "open")
        => LET qq == IF Supplied(msg') # <<>> THEN Supplied(msg')
                     ELSE transcription_buffer IN
             IF qq # <<>>
             THEN /\ sent' = <<StatusEvent("generating")>>
                  /\ question' = qq
                  /\ pc' = "sent_status"
             ELSE /\ sent' = <<>>
                  /\ pc' = "recv"
                  /\ UNCHANGED sessVars ]_vars

\* C13: a generate_answer message that carries a non-empty question is
\* answered without any transcription event, and the ai_response carries
\* exactly that question; this needs no audio to have been received.  The
\* ai_response is checked for an open channel and a generator that can be
\* initialised (C10 is the other case).
ManualGiven ==
  /\ msg.type = "generate_answer"
  /\ msg.question.present
  /\ msg.question.value # <<>>

C13_ManualAnswer ==
  /\ [](ManualGiven =>
          \A i \in DOMAIN sent :
             /\ sent[i].type # "transcription"
             /\ IsResponse(sent[i]) => sent[i].question = msg.question.value)
  /\ []((ManualGiven /\ pc = "recv" /\ peer = "open" /\ (api_key \/ ai_initialized))
          => \E i \in DOMAIN sent : IsResponse(sent[i]))

\* the first message of the connection is the manual request, and its
\* answer has been delivered
C13_Witness ==
  /\ ManualGiven
  /\ nmsgs = 1
  /\ pc = "recv"
  /\ executor_jobs = 0
  /\ \E i \in DOMAIN sent :
        IsResponse(sent[i]) /\ sent[i].question = msg.question.value

\* C14 (as stated): after start_session, a single audio_chunk that reaches
\* the drain threshold and is transcribed as "what is your biggest weakness"
\* produces a transcription event with is_final=false, then one with
\* is_final=true and the same text, then an ai_response, then a persisted
\* Q&A record.
SingleChunkDone ==
  /\ msg.type = "audio_chunk"
  /\ recv_buffer = <<>>
  /\ db_session_id # None
  /\ pc = "recv"
  /\ peer = "open"
  /\ api_key
  /\ sent # <<>>
  /\ IsPartial(sent[1])
  /\ sent[1].full_text = sent[1].text

QaPersisted(q) ==
  \E k \in DOMAIN db_qa :
     db_qa[k].session_id = db_session_id /\ db_qa[k].question = q

C14_WeaknessScenario ==
  (SingleChunkDone /\ sent[1].text = Weakness)
    => /\ Len(sent) >= 4
       /\ IsFinal(sent[2])
       /\ sent[2].text = Weakness
       /\ IsResponse(sent[4])
       /\ QaPersisted(Weakness)

\* C14 (amended): the sequence is produced when the transcription has at
\* least ten words and starts with "what"; the insert of the Q&A record may
\* fail, and then an error event follows the ai_response.  The five words
\* "what is your biggest weakness" produce the is_final=false event only and
\* stay in the transcription buffer.
TenWordsFromWhat(text) ==
  /\ Len(Split(text)) >= 10
  /\ Split(LowerStr(text))[1] = <<"w","h","a","t">>

C14_TenWordScenario ==
  /\ (SingleChunkDone /\ TenWordsFromWhat(sent[1].text))
       => /\ Len(sent) >= 4
          /\ IsFinal(sent[2])
          /\ sent[2].text = sent[1].text
          /\ sent[3] = StatusEvent("generating")
          /\ IsResponse(sent[4])
          /\ sent[4].question = sent[1].text
          /\ \/ Len(sent) = 4 /\ QaPersisted(sent[1].text)
             \/ Len(sent) = 5 /\ IsGenerateError(sent[5])
  /\ (SingleChunkDone /\ sent[1].text = Weakness)
       => /\ Len(sent) = 1
          /\ transcription_buffer = Weakness
          /\ ~QaPersisted(Weakness)

C14_Witness ==
  /\ SingleChunkDone
  /\ TenWordsFromWhat(sent[1].text)
  /\ Len(sent) = 4
  /\ QaPersisted(sent[1].text)

\* C15: the block handed to a transcription call is the concatenation, in
\* arrival order, of the converted bytes (the raw bytes when the conversion
\* gives none) of every chunk appended since the previous drain or the last
\* start_session reset, and the audio buffer is empty right after the drain;
\* nothing else adds to, removes from or reorders the buffer.
C15_BlockIsArrivals ==
  /\ [][ (Received /\ msg'.type = "audio_chunk" /\ msg'.data \in Payloads)
           => \E ch \in ChunkOf(msg') :
                LET arrived == Append(audio_buffer, ch) IN
                  IF BufLen(arrived) >= 64000
                  THEN passes' = <<arrived>> /\ audio_buffer' = <<>>
                  ELSE passes' = <<>> /\ audio_buffer' = arrived ]_vars
  /\ [][ (Received /\ msg'.type = "end_session")
           => IF BufLen(audio_buffer) > 1000
              THEN passes' = <<audio_buffer>> /\ audio_buffer' = <<>>
              ELSE passes' = <<>> /\ audio_buffer' = audio_buffer ]_vars
  /\ [][ (Received /\ msg'.type = "start_session")
           => (audio_buffer' = <<>> \/ (pc' = "closed" /\ UNCHANGED audio_buffer)) ]_vars
  /\ [][ audio_buffer' # audio_buffer
           => (Received /\ msg'.type \in {"audio_chunk", "start_session", "end_session"}) ]_vars
  /\ [](pc = "transcribing"
          => (audio_data = passes[Len(passes)] /\ audio_buffer = <<>>))

\* a block made of a short chunk followed by a long one is being transcribed
C15_Witness ==
  /\ pc = "transcribing"
  /\ Len(audio_data) = 2
  /\ audio_data[1].name = "p2"
  /\ audio_data[2].name = "p1"
  /\ audio_buffer = <<>>

\* C16: a processed start_session leaves the session with a newly created
\* persisted id and with both buffers empty, whatever the state before; a
\* session that was active is replaced without being marked ended.
StartProcessed == Received /\ msg'.type = "start_session" /\ pc' = "recv"

C16_StartReplaces ==
  [][ StartProcessed
        => /\ Len(db_sessions') = Len(db_sessions) + 1
           /\ db_session_id' = Len(db_sessions')
           /\ db_sessions'[db_session_id'].ended_writes = 0
           /\ audio_buffer' = <<>>
           /\ transcription_buffer' = <<>>
           /\ \A i \in DOMAIN db_sessions : db_sessions'[i] = db_sessions[i] ]_vars

\* a second start_session came while the first session was active and held
\* audio; the first session is still not marked ended
C16_Witness ==
  /\ msg.type = "start_session"
  /\ pc = "recv"
  /\ db_session_id = 2
  /\ recv_buffer # <<>>
  /\ db_sessions[1].ended_writes = 0

\* C17 (as stated): db_session_id is None until the first start_session is
\* processed and after every processed end_session; an end_session in an
\* active session marks its row ended and emits one status event; an
\* end_session with no session emits no status event and writes nothing to
\* the database.
EndStep ==
  /\ msg'.type = "end_session"
  /\ pc' # pc
  /\ Received \/ (msg' = msg /\ pc \notin {"recv", "closed"})

EndDone == EndStep /\ pc' = "recv"

StatusEvents(evs) == { i \in DOMAIN evs : evs[i].type = "status" }

EndedEvents(evs) ==
  { i \in DOMAIN evs : evs[i].type = "status" /\ evs[i].status = "session_ended" }

NoneOutsideSession ==
  /\ [](db_sessions = <<>> => db_session_id = None)
  /\ [][ EndDone => db_session_id' = None ]_vars

C17_EndSessionStatus ==
  /\ NoneOutsideSession
  /\ [][ (EndDone /\ db_session_id # None)
           => /\ db_sessions'[db_session_id].ended_writes >= 1
              /\ Cardinality(StatusEvents(sent')) = 1 ]_vars
  /\ [][ (EndStep /\ db_session_id = None)
           => /\ StatusEvents(sent') = {}
              /\ UNCHANGED <<db_sessions, db_qa>> ]_vars

\* C17 (amended): the status event in question is the session_ended one; the
\* last pass over the remaining audio may also send the generating status of
\* an answer, in an active session and without one.
C17_EndSessionEndedStatus ==
  /\ NoneOutsideSession
  /\ [][ (EndDone /\ db_session_id # None)
           => /\ db_sessions'[db_session_id].ended_writes >= 1
              /\ Cardinality(EndedEvents(sent')) = 1 ]_vars
  /\ [][ (EndStep /\ db_session_id = None)
           => /\ EndedEvents(sent') = {}
              /\ UNCHANGED <<db_sessions, db_qa>> ]_vars

\* an end_session without a session has answered a question from the
\* remaining audio and has written nothing
C17_Witness ==
  /\ msg.type = "end_session"
  /\ pc = "recv"
  /\ db_sessions = <<>>
  /\ db_session_id = None
  /\ \E i \in DOMAIN sent : sent[i] = StatusEvent("generating")
  /\ \E i \in DOMAIN sent : IsResponse(sent[i])
  /\ db_qa = <<>>

\* C18: audio that arrives while no session is open is buffered and
\* transcribed like any other, and a detected question gets its ai_response;
\* no Q&A record is written for it and the skipped write raises no error.
IdleChunk == msg.type = "audio_chunk" /\ db_session_id = None

C18_IdleAudioAnswered ==
  /\ []((IdleChunk /\ pc = "recv" /\ peer = "open" /\ api_key
           /\ \E i \in DOMAIN sent : IsFinal(sent[i]))
          => /\ \E i \in DOMAIN sent : IsResponse(sent[i])
             /\ \A i \in DOMAIN sent : sent[i].type # "error")
  /\ [][ (IdleChunk /\ pc = "sent_response" /\ pc' # pc)
           => /\ UNCHANGED <<db_qa, db_sessions, sent>>
              /\ last_question' = question
              /\ pc' = "recv" ]_vars
  /\ [](db_sessions = <<>> => db_qa = <<>>)

\* a question spoken before any start_session has been answered
C18_Witness ==
  /\ IdleChunk
  /\ db_sessions = <<>>
  /\ pc = "recv"
  /\ passes # <<>>
  /\ \E i \in DOMAIN sent : IsResponse(sent[i])
  /\ last_question # <<>>
  /\ db_qa = <<>>

\* C19: at most one call of generate_answer is outstanding at any instant;
\* no message, a generate_answer among them, is dispatched while one is
\* running, so the generating status of one question is followed by its own
\* ai_response (or error) before anything is sent for another question.
Generating(ev) == ev = StatusEvent("generating")

C19_OneGenerationInFlight ==
  /\ [](llm_calls <= 1)
  /\ [](llm_calls = 1 => pc = "generating")
  /\ [][ llm_calls > 0 => ~Received ]_vars
  /\ [](\A i \in DOMAIN sent :
          /\ (Generating(sent[i]) /\ i < Len(sent))
               => (IsResponse(sent[i + 1]) \/ IsGenerateError(sent[i + 1]))
          /\ IsResponse(sent[i]) => (i > 1 /\ Generating(sent[i - 1])))
  /\ [][ (Received /\ peer = "open" /\ sent # <<>>)
           => ~Generating(sent[Len(sent)]) ]_vars

\* a generation triggered by audio is running while the client may still
\* send messages, after an earlier question was answered
C19_Witness ==
  /\ llm_calls = 1
  /\ pc = "generating"
  /\ msg.type = "audio_chunk"
  /\ last_question # <<>>
  /\ nmsgs < MaxMsgs

\* C20: the session row written by start_session carries the filename and
\* the full text of the CV context current at that moment, which is the last
\* accepted upload not cleared since, and carries neither when there is no
\* context; later uploads do not change the row.
Accepted(f) ==
  /\ f.ext \in SUPPORTED_EXTENSIONS
  /\ f.size <= 10485760
  /\ ~f.error
  /\ f.text.len > 0

C20_SessionCarriesCv ==
  /\ [][ (Received /\ msg'.type = "start_session"
            /\ Len(db_sessions') > Len(db_sessions))
           => LET row == db_sessions'[Len(db_sessions')] IN
                IF cv_context = NoContext
                THEN row.cv_filename = "" /\ row.cv_text = NoText
                ELSE /\ row.cv_filename = cv_context.filename
                     /\ row.cv_text = cv_context.text ]_vars
  /\ [][ cv_context' # cv_context
           => \/ cv_context' = NoContext
              \/ \E f \in Uploads :
                   /\ Accepted(f)
                   /\ cv_context'.filename = f.filename
                   /\ cv_context'.text = f.text ]_vars
  /\ [][ \A i \in DOMAIN db_sessions :
           /\ db_sessions'[i].cv_filename = db_sessions[i].cv_filename
           /\ db_sessions'[i].cv_text = db_sessions[i].cv_text ]_vars

\* a session started under a CV longer than its summary keeps that CV in
\* full after another CV was uploaded
C20_Witness ==
  /\ db_sessions # <<>>
  /\ db_sessions[1].cv_filename = "b.txt"
  /\ db_sessions[1].cv_text = [name |-> "cv b", len |-> 5000]
  /\ cv_context.filename = "a.pdf"

\* C21: an exception of the transcription call (a block of odd length) does
\* not reach the reader loop: the handler of an audio_chunk returns with the
\* connection open, the drained block is gone from audio_buffer,
\* transcription_buffer is as before and nothing is sent; the reader takes
\* the next message.
RaisingBlock(b) == BufLen(b) >= 1000 /\ BufLen(b) % 2 = 1

C21_TranscribeExceptionSwallowed ==
  /\ [][ (Received /\ msg'.type = "audio_chunk" /\ passes' # <<>>
            /\ RaisingBlock(passes'[1]))
           => /\ pc' = "recv"
              /\ audio_buffer' = <<>>
              /\ transcription_buffer' = transcription_buffer
              /\ sent' = <<>>
              /\ ~is_processing'
              /\ executor_jobs' = 0
              /\ UNCHANGED <<db_session_id, db_sessions, db_qa>> ]_vars
  /\ [][ (Received /\ msg'.type = "end_session" /\ passes' # <<>>
            /\ RaisingBlock(passes'[1]))
           => /\ audio_buffer' = <<>>
              /\ transcription_buffer' = transcription_buffer
              /\ ~is_processing'
              /\ (db_session_id = None => pc' = "recv") ]_vars

\* the call failed on a block of odd length while text was buffered, and the
\* reader is back at receive_text
C21_Witness ==
  /\ msg.type = "audio_chunk"
  /\ pc = "recv"
  /\ peer = "open"
  /\ passes # <<>>
  /\ RaisingBlock(passes[1])
  /\ audio_buffer = <<>>
  /\ transcription_buffer # <<>>

\* C22: every failure while an inbound message is handled (an audio payload
\* that cannot be decoded, a failed transcription, a failed generation, a
\* failed database write) gives the client an error event or, for a failed
\* generation, an ai_response with the apology text.  Stated here for the
\* two failures that the state records: the payload and the raising block.
FailureReported ==
  \E i \in DOMAIN sent :
     \/ sent[i].type = "error"
     \/ IsResponse(sent[i]) /\ sent[i].answer = Apology.text

C22_FailureReported ==
  (/\ msg.type = "audio_chunk"
   /\ pc = "recv"
   /\ peer = "open"
   /\ \/ msg.data = BadBase64
      \/ passes # <<>> /\ RaisingBlock(passes[1]))
    => FailureReported

\* C23: is_complete_question returns true for every text whose last
\* character other than whitespace is "?", whatever its number of words, the
\* text "?" alone included.
C23_QuestionMarkIsQuestion ==
  (text_out # <<>> /\ text_in.mark = <<"?">>) => text_out[1]

\* the text "?" followed by whitespace was found to be a question
C23_Witness ==
  /\ text_out = <<TRUE>>
  /\ text_in.nwords = 0
  /\ text_in.mark = <<"?">>
  /\ text_in.trail # <<>>

\* C24: for a text that does not end in "?", is_complete_question returns
\* true exactly when the text has at least 10 words and its first word is,
\* in any letter case, a question starter; so it returns false for an empty
\* or whitespace-only text and for every text of fewer than 10 words.
C24_TenWordsAndStarter ==
  (text_out # <<>> /\ text_in.mark = <<>>)
    => (text_out[1] <=> (text_in.nwords >= 10 /\ text_in.first.starter))

\* ten words after "DOES", separated by line breaks, were found to be a
\* question
C24_Witness ==
  /\ text_out = <<TRUE>>
  /\ text_in.mark = <<>>
  /\ text_in.nwords = 10
  /\ text_in.first.word = <<"D","O","E","S">>
  /\ text_in.sep = <<"\n">>

\* C25: an audio_chunk that arrives while a transcription of the session is
\* in progress is taken by the reader and appended to audio_buffer, its
\* request for a pass being dropped by the is_processing test.  Stated as
\* what this needs: while the transcription runs, the reader is at
\* receive_text for the next message.
C25_ChunkTakenDuringTranscription ==
  (is_processing /\ pc = "transcribing" /\ nmsgs < MaxMsgs) => CanReceive

\* C26: when the language-model request fails, generate_answer returns the
\* apology text with no key points; the pipeline sends it as an ai_response,
\* not as an error event, and in an active session writes a Q&A record with
\* it (or reports the failure of that write).
ApologyResponse(q) == ResponseEvent(q, [text |-> "apology", key_points |-> <<>>])

AnswerResponse(q) == ResponseEvent(q, [text |-> "answer", key_points |-> <<"point">>])

C26_ApologyIsAnswer ==
  /\ [][ (pc = "generating" /\ pc' # pc /\ peer = "open")
           => /\ pc' = "sent_response"
              /\ \/ sent' = Append(sent, ApologyResponse(question))
                 \/ sent' = Append(sent, AnswerResponse(question))
              /\ answer'.text = sent'[Len(sent')].answer ]_vars
  /\ [][ (pc = "sent_response" /\ pc' # pc /\ db_session_id # None
            /\ sent[Len(sent)] = ApologyResponse(question))
           => IF db_qa' # db_qa
              THEN /\ db_qa' = Append(db_qa, db_qa'[Len(db_qa')])
                   /\ db_qa'[Len(db_qa')].session_id = db_session_id
                   /\ db_qa'[Len(db_qa')].question = question
                   /\ db_qa'[Len(db_qa')].answer = "apology"
                   /\ db_qa'[Len(db_qa')].key_points = <<>>
                   /\ \A i \in DOMAIN sent' :
                         i > Len(sent) => ~IsGenerateError(sent'[i])
              ELSE /\ Len(sent') > Len(sent) => IsGenerateError(sent'[Len(sent) + 1])
                   /\ peer = "open" => Len(sent') > Len(sent) ]_vars

\* the apology was sent as the answer to a question and stored with it
C26_Witness ==
  /\ db_qa # <<>>
  /\ db_qa[Len(db_qa)].answer = "apology"
  /\ \E i \in DOMAIN sent : sent[i] = ApologyResponse(db_qa[Len(db_qa)].question)
  /\ \A i \in DOMAIN sent : sent[i].type # "error"
  /\ pc = "recv"

\* C27: the drain of audio_buffer and the transcription call that follows
\* are executed only while the task holds processing_lock; the lock is held
\* from its acquisition to the end of the transcription call.
C27_LockHeldOverTranscription ==
  pc = "transcribing" => processing_lock

\* C28: when a transcription returns text that is not all whitespace,
\* transcription_buffer becomes the stripped value of (old buffer, " ", text)
\* and one transcription event with is_final=false is sent, whose text is
\* the returned text and whose full_text is the new buffer; when it returns
\* an empty or all-whitespace text, transcription_buffer stays as it is, no
\* event of the pass is sent, and no boundary check or generation follows.
Transcribed ==
  IF Received THEN heard' # <<>> ELSE Len(heard') > Len(heard)

NewSent == IF Received THEN sent' ELSE SubSeq(sent', Len(sent) + 1, Len(sent'))

HasText(t) == \E i \in DOMAIN t : t[i] \notin {" ", "\n"}

C28_TranscriptionAppended ==
  [][ Transcribed
        => LET text == heard'[Len(heard')] IN
             IF HasText(text)
             THEN /\ transcription_buffer'
                       = Strip(transcription_buffer \o <<" ">> \o text)
                  /\ peer = "open"
                       => /\ NewSent = <<PartialEvent(text, transcription_buffer')>>
                          /\ pc' = "sent_partial"
             ELSE /\ transcription_buffer' = transcription_buffer
                  /\ \A i \in DOMAIN NewSent :
                        /\ NewSent[i].type \notin {"transcription", "ai_response"}
                        /\ NewSent[i] # StatusEvent("generating")
                  /\ pc' \in {"recv", "closed"}
                  /\ llm_calls' = 0
                  /\ UNCHANGED <<last_question, db_qa>> ]_vars

\* a second text was joined to a buffered one
C28_Witness ==
  /\ pc = "sent_partial"
  /\ heard # <<>>
  /\ sent[Len(sent)].text = heard[Len(heard)]
  /\ Len(sent[Len(sent)].full_text) > Len(Strip(heard[Len(heard)]))
  /\ sent[Len(sent)].full_text = transcription_buffer

\* C29: the CV context that start_session and the answer generation read is
\* the one stored by the last accepted upload and not cleared since, and
\* none after a clear; an upload that is rejected (extension, size,
\* extraction error, no text) changes neither the stored context nor the
\* state of the session.
SummaryOf(text) == IF text.len <= 2000 THEN text ELSE [name |-> text.name, len |-> 2000]

StoredBy(ctx, f) ==
  /\ Accepted(f)
  /\ ctx.filename = f.filename
  /\ ctx.text = f.text
  /\ ctx.summary = SummaryOf(f.text)

C29_ContextIsLastUpload ==
  /\ [](cv_context = NoContext \/ \E f \in Uploads : StoredBy(cv_context, f))
  /\ [][ cv_context' # cv_context
           => /\ cv_context' = NoContext \/ \E f \in Uploads : StoredBy(cv_context', f)
              /\ UNCHANGED <<pc, stack, msg, nmsgs, sessVars, sent, db_sessions,
                             db_qa, cv_text>> ]_vars
  /\ [][ (pc = "sent_status" /\ pc' = "generating")
           => /\ cv_text' = cv_context.summary
              /\ cv_context = NoContext => cv_text' = NoText ]_vars
  /\ [][ cv_text' # cv_text => (pc = "sent_status" \/ pc = "sent_response"
                                  \/ pc = "generating") ]_vars
  /\ [][ (Received /\ msg'.type = "start_session"
            /\ Len(db_sessions') > Len(db_sessions))
           => /\ db_sessions'[Len(db_sessions')].cv_filename = cv_context.filename
              /\ db_sessions'[Len(db_sessions')].cv_text = cv_context.text ]_vars

\* a generation runs on the summary of a CV that replaced the one the
\* session was started under
C29_Witness ==
  /\ pc = "generating"
  /\ db_session_id # None
  /\ db_sessions[db_session_id].cv_filename = "a.pdf"
  /\ cv_context.filename = "b.txt"
  /\ cv_text = [name |-> "cv b", len |-> 2000]

\* C30: on a new connection the server sends status "loading" and then
\* status "ready" before it reads any message; if loading the transcription
\* model fails it sends one error event and closes, and then no message is
\* read and no session is stored.
C30_PreloadBeforeRead ==
  /\ [](pc = "start" => (nmsgs = 0 /\ sent = <<>> /\ db_sessions = <<>>))
  /\ [][ (pc = "start" /\ pc' # pc)
           => IF pc' = "recv"
              THEN sent' = <<StatusEvent("loading"), StatusEvent("ready")>>
              ELSE /\ pc' = "closed"
                   /\ \/ peer = "gone" /\ sent' = <<>>
                      \/ /\ Len(sent') = 2
                         /\ sent'[1] = StatusEvent("loading")
                         /\ sent'[2].type = "error" ]_vars
  /\ [][ Received => pc = "recv" ]_vars
  /\ [][ pc = "closed"
           => UNCHANGED <<pc, nmsgs, sent, db_sessions, db_qa, sessVars>> ]_vars
  /\ []((pc = "closed" /\ \E i \in DOMAIN sent :
                             sent[i].message[1] = "Failed to load models")
          => (nmsgs = 0 /\ db_sessions = <<>> /\ db_qa = <<>>))

\* the model could not be loaded: the client got "loading" and the error,
\* and the connection is closed
C30_Witness ==
  /\ pc = "closed"
  /\ nmsgs = 0
  /\ Len(sent) = 2
  /\ sent[1] = StatusEvent("loading")
  /\ sent[2].type = "error"
  /\ db_sessions = <<>>

\* C31: for one run of the answer pipeline the client gets an ai_response
\* or an error event for the question, and never both; a failed write of the
\* Q&A record after the ai_response is not reported as "Failed to generate
\* answer".
Outcomes(evs) ==
  { i \in DOMAIN evs : IsResponse(evs[i]) \/ IsGenerateError(evs[i]) }

C31_OneOutcomePerQuestion ==
  /\ Cardinality(Outcomes(sent)) <= 1
  /\ (pc = "recv" /\ peer = "open" /\ \E i \in DOMAIN sent : Generating(sent[i]))
       => Cardinality(Outcomes(sent)) = 1

\* C32: whenever no transcription pass is in progress, transcription_buffer
\* is not a complete question: a text that is_complete_question accepts does
\* not stay in the buffer once the pass that appended it has ended, also
\* when that pass ended by an exception of a send.
C32_NoQuestionLeftInBuffer ==
  ~InPass => ~is_complete_question(transcription_buffer)

\* C33: every row of interview_qa names a session whose row is in
\* interview_sessions, however the connection's add_qa calls interleave with
\* deletions of its session by the history router.
C33_QaReferencesSession ==
  \A k \in DOMAIN db_qa : SessionExists(S, db_qa[k].session_id)

\* C34: the connection writes ended_at of a session row at most once: after
\* end_session has run for an id, no later step (a failed status send
\* followed by the disconnect branch, a second end_session message, the
\* teardown) runs it for that id again.
C34_EndedAtMostOnce ==
  \A id \in DOMAIN db_sessions : db_sessions[id].ended_writes <= 1

\* C35: with the channel open, when the reader is back at its receive every
\* transcription event with is_final=true of the message just handled is
\* followed by exactly one outcome event (an ai_response or a "Failed to
\* generate answer" error), sent before the next message is received.
C35_FinalThenOneOutcome ==
  (pc = "recv" /\ peer = "open")
    => \A i \in DOMAIN sent :
         IsFinal(sent[i])
           => Cardinality({ j \in Outcomes(sent) : j > i }) = 1

\* C36: no step taken while a generate_answer message is being handled, from
\* its receipt to the return to the reader's receive, changes audio_buffer,
\* transcription_buffer or db_session_id; a transcript answered on request
\* stays in the buffer.
C36_ManualAnswerKeepsBuffers ==
  [][ msg'.type = "generate_answer"
        => UNCHANGED <<audio_buffer, transcription_buffer, db_session_id>> ]_vars

\* a generate_answer message without a question was answered from the
\* transcript, which is still in the buffer when the reader receives again
C36_Witness ==
  /\ pc = "recv"
  /\ msg.type = "generate_answer"
  /\ ~msg.question.present
  /\ transcription_buffer # <<>>
  /\ last_question = transcription_buffer
  /\ db_session_id # None
  /\ \E i \in DOMAIN sent :
       IsResponse(sent[i]) /\ sent[i].question = transcription_buffer

\* the session that the end_session message just handled has ended
EndedSession == Len(db_sessions)

FinalPassDone ==
  /\ pc = "recv"
  /\ msg.type = "end_session"
  /\ EndedEvents(sent) # {}

PersistedBeforeEnd(q) ==
  \E k \in DOMAIN db_qa :
    /\ db_qa[k].session_id = EndedSession
    /\ db_qa[k].question = q
    /\ ~db_qa[k].session_ended

\* C37 (as stated): every question detected by the last pass of an
\* end_session, the pass that sends its final transcription event, has a Q&A
\* row under the session that was ended once the session_ended status is sent.
C37_FinalQuestionPersisted ==
  FinalPassDone
    => \A i \in DOMAIN sent : IsFinal(sent[i]) => PersistedBeforeEnd(sent[i].text)

\* C37 (amended): a Q&A row written while an end_session is handled is
\* written under the session being ended, with db_session_id still set and
\* ended_at of that session not yet written; and when the question of the
\* last pass got its ai_response and no "Failed to generate answer" error,
\* that row exists once the session_ended status is sent.
C37_AnsweredFinalQuestionPersisted ==
  /\ [][ (msg'.type = "end_session" /\ db_qa' # db_qa)
           => /\ db_session_id # None
              /\ db_sessions[db_session_id].ended_writes = 0
              /\ db_qa' = Append(db_qa, db_qa'[Len(db_qa')])
              /\ db_qa'[Len(db_qa')].session_id = db_session_id
              /\ db_qa'[Len(db_qa')].question = question
              /\ ~db_qa'[Len(db_qa')].session_ended ]_vars
  /\ [](FinalPassDone
          => \A i \in DOMAIN sent :
               (/\ IsFinal(sent[i])
                /\ \E j \in DOMAIN sent : j > i /\ IsResponse(sent[j])
                /\ \A j \in DOMAIN sent : ~IsGenerateError(sent[j]))
                 => PersistedBeforeEnd(sent[i].text))

\* an end_session in an active session has answered a question from the
\* remaining audio: the row is in the table, written before ended_at, and
\* the session is ended and forgotten by the connection
C37_Witness ==
  /\ FinalPassDone
  /\ db_session_id = None
  /\ db_sessions[EndedSession].ended_writes = 1
  /\ \E i \in DOMAIN sent :
       /\ IsFinal(sent[i])
       /\ PersistedBeforeEnd(sent[i].text)
       /\ \E j \in DOMAIN sent : j > i /\ IsResponse(sent[j])

====
